---------------------------- MODULE Spec2Model ----------------------------
(***************************************************************************)
(* riven_sniper: normalization -> aggregation -> deal-matching pipeline.   *)
(*                                                                         *)
(* The model follows src/src/{normalizer,poller,aggregator,monitor,        *)
(* riven_sniper,config}.py.  The sqlite database is modelled by its three  *)
(* tables as they are committed on disk.  Python floats are modelled by    *)
(* exact fractions [n |-> numerator, d |-> denominator]; for the integer   *)
(* prices and the constants of config.py the float comparisons of the code *)
(* agree with the exact ones.  Python's None is the empty tuple for a      *)
(* "tuple | None" result and the string NoneStr for a "str | None" result. *)
(***************************************************************************)
EXTENDS Integers, Sequences, FiniteSets, TLC

VARIABLES
    market,      \* what the two marketplaces currently show (raw listings)
    listings,    \* table listings: set of rows, id is the primary key
    godrolls,    \* table godrolls: [exists, rows]; rows in rowid order
    alerted,     \* table alerted_listings: set of listing ids
    profiles,    \* dict built by the last aggregate(): key -> price list
    lastDeals,   \* list returned by the last find_deals call
    notified,    \* ids of lastDeals whose push notification was delivered
    returnCount, \* id -> number of Deals that carried this id so far
    pc,          \* position of run_pipeline: next phase to run
    trace,       \* phases of the current cycle with their outcome
    today,       \* the last date read from the system clock
    marker,      \* content of logs/.last_aggregate (0: no file)
    norm,        \* one call of normalize: its arguments and its result
    rankedRolls, \* the rolls of every weapon as the last aggregate() ranked
                 \* them, before the selection of the godrolls
    sampleThreshold,
                 \* config.SAMPLE_THRESHOLD this installation runs with
    lastFetch,   \* what the two marketplaces returned to the poll() that
                 \* has just returned (forgotten when the gate has run)
    aggregateRuns,
                 \* number of calls of aggregate() on the date today
    attempt,     \* the call of aggregate() on the date today: the hour of
                 \* the clock at the call and whether the call raised
    lastBuild,   \* the rebuild the godrolls table comes from: the listings
                 \* it read, the godroll rows it dropped, and whether the
                 \* table it replaced was built from the same listings
    sinceMatch,  \* whether listings or godrolls changed since the last
                 \* find_deals call that returned ("none": no such call;
                 \* "changed"; "same"; "repeat": unchanged, and that call
                 \* had itself found them unchanged)
    fmt          \* one call of format_riven_stats: argument and result

vars == <<market, listings, godrolls, alerted, profiles, lastDeals, notified,
          returnCount, pc, trace, today, marker, norm,
          rankedRolls, sampleThreshold, lastFetch,
          aggregateRuns, attempt, lastBuild, sinceMatch, fmt>>

-----------------------------------------------------------------------------
(* Bounds of the model                                                     *)

NumTokens == 8      \* stat tokens tried as arguments of normalize
MaxBatch == 2       \* listings one marketplace returns to one poll
MaxPolled == 2      \* rows the polls add to the listings table
MaxDay == 2         \* calendar days the clock runs through
MaxUndelivered == 1 \* push notifications of one monitor() that fail

-----------------------------------------------------------------------------
(* config.py                                                               *)

MAX_PRICE == 50000
SAMPLE_THRESHOLD == 80
GODROLL_COUNT == 5
DEAL_THRESHOLD == [n |-> 3, d |-> 5]     \* 0.60
WINDOW_LIMIT == 10                        \* LIMIT 10 of find_deals
AGGREGATE_HOUR == 4

-----------------------------------------------------------------------------
(* Generic helpers: fractions, sequences                                   *)

None == <<>>
NoneStr == "<None>"

\* a <= b for fractions with positive denominators
FracLe(a, b) == a.n * b.d <= b.n * a.d
FracEq(a, b) == a.n * b.d = b.n * a.d
IntFrac(i) == [n |-> i, d |-> 1]

RECURSIVE SeqSum(_)
SeqSum(s) == IF s = <<>> THEN 0 ELSE Head(s) + SeqSum(Tail(s))

Range(s) == {s[i] : i \in DOMAIN s}

\* s[1..n] (Python s[:n])
Prefix(s, n) == IF Len(s) <= n THEN s ELSE SubSeq(s, 1, n)

\* variant: the last position of x in s, zero-based
FirstIndex_Last(s, x) == (CHOOSE i \in DOMAIN s :
                            s[i] = x /\ \A j \in (i + 1)..Len(s) : s[j] # x) - 1

\* variant: the position is counted from one
FirstIndex_OneBased(s, x) ==
    CHOOSE i \in DOMAIN s : s[i] = x /\ \A j \in 1..(i - 1) : s[j] # x

\* Python list.index: first position of x in s, zero-based
FirstIndex(s, x) == (CHOOSE i \in DOMAIN s :
                        s[i] = x /\ \A j \in 1..(i - 1) : s[j] # x) - 1

\* stable sort (Python sorted / list.sort) under the strict order Less:
\* an element moves behind the smaller ones and the equal ones before it
SortBy(s, Less(_, _)) ==
    LET Place(pos) ==
            [k \in DOMAIN s |-> s[CHOOSE i \in DOMAIN s : pos[i] = k]]
    IN  Place([i \in DOMAIN s |->
                  1 + Cardinality({j \in DOMAIN s :
                         \/ Less(s[j], s[i])
                         \/ (~Less(s[i], s[j]) /\ j < i)})])

-----------------------------------------------------------------------------
(* normalizer.py                                                           *)

CANONICAL_STATS ==
    {"ammo_max", "cold", "combo_count_chance", "combo_duration",
     "corpus_damage", "crit_chance", "crit_damage", "damage",
     "electricity", "finisher", "fire_rate", "grineer_damage",
     "heat", "heavy_efficiency", "impact", "infested_damage",
     "initial_combo", "magazine", "multishot", "projectile_speed",
     "punch_through", "puncture", "range", "recoil",
     "reload_speed", "slash", "slide_crit_chance", "status_chance",
     "status_duration", "toxin", "zoom"}

RIVEN_MARKET_TO_CANONICAL ==
    "Ammo" :> "ammo_max" @@ "ComboGainExtra" :> "combo_count_chance" @@
    "ComboGainLost" :> "combo_count_loss" @@ "Corpus" :> "corpus_damage" @@
    "Grineer" :> "grineer_damage" @@ "Infested" :> "infested_damage" @@
    "Cold" :> "cold" @@ "Combo" :> "combo_duration" @@
    "CritChance" :> "crit_chance" @@ "Slide" :> "slide_crit_chance" @@
    "CritDmg" :> "crit_damage" @@ "Damage" :> "damage" @@
    "Electric" :> "electricity" @@ "Heat" :> "heat" @@
    "Finisher" :> "finisher" @@ "Speed" :> "fire_rate" @@
    "Flight" :> "projectile_speed" @@ "InitC" :> "initial_combo" @@
    "Impact" :> "impact" @@ "Magazine" :> "magazine" @@
    "ComboEfficiency" :> "heavy_efficiency" @@ "Multi" :> "multishot" @@
    "Toxin" :> "toxin" @@ "Punch" :> "punch_through" @@
    "Puncture" :> "puncture" @@ "Reload" :> "reload_speed" @@
    "Range" :> "range" @@ "Slash" :> "slash" @@
    "StatusC" :> "status_chance" @@ "StatusD" :> "status_duration" @@
    "Recoil" :> "recoil" @@ "Zoom" :> "zoom"

WARFRAME_MARKET_TO_CANONICAL ==
    "ammo_maximum" :> "ammo_max" @@
    "chance_to_gain_extra_combo_count" :> "combo_count_chance" @@
    "chance_to_gain_combo_count" :> "combo_count_chance" @@
    "damage_vs_corpus" :> "corpus_damage" @@
    "damage_vs_grineer" :> "grineer_damage" @@
    "damage_vs_infested" :> "infested_damage" @@
    "cold_damage" :> "cold" @@ "combo_duration" :> "combo_duration" @@
    "critical_chance" :> "crit_chance" @@
    "critical_chance_on_slide_attack" :> "slide_crit_chance" @@
    "critical_damage" :> "crit_damage" @@
    "base_damage_/_melee_damage" :> "damage" @@
    "electric_damage" :> "electricity" @@ "heat_damage" :> "heat" @@
    "finisher_damage" :> "finisher" @@
    "fire_rate_/_attack_speed" :> "fire_rate" @@
    "projectile_speed" :> "projectile_speed" @@
    "channeling_damage" :> "initial_combo" @@
    "impact_damage" :> "impact" @@ "magazine_capacity" :> "magazine" @@
    "channeling_efficiency" :> "heavy_efficiency" @@
    "multishot" :> "multishot" @@
    "toxin_damage" :> "toxin" @@ "punch_through" :> "punch_through" @@
    "puncture_damage" :> "puncture" @@ "reload_speed" :> "reload_speed" @@
    "range" :> "range" @@ "slash_damage" :> "slash" @@
    "status_chance" :> "status_chance" @@
    "status_duration" :> "status_duration" @@
    "recoil" :> "recoil" @@ "zoom" :> "zoom"

\* The values of the two dictionaries in the order of Python's str
\* comparison (code points: "_" sorts before the lower-case letters).
StrOrder ==
    <<"ammo_max", "cold", "combo_count_chance", "combo_count_loss",
      "combo_duration", "corpus_damage", "crit_chance", "crit_damage",
      "damage", "electricity", "finisher", "fire_rate",
      "grineer_damage", "heat", "heavy_efficiency", "impact",
      "infested_damage", "initial_combo", "magazine", "multishot",
      "projectile_speed", "punch_through", "puncture", "range",
      "recoil", "reload_speed", "slash", "slide_crit_chance",
      "status_chance", "status_duration", "toxin", "zoom">>

\* position of a canonical stat name in that order
StrRank ==
    [x \in {StrOrder[i] : i \in DOMAIN StrOrder} |->
        CHOOSE i \in DOMAIN StrOrder : StrOrder[i] = x]

\* Python a < b on two canonical stat names
StrLess(a, b) == StrRank[a] < StrRank[b]

\* str.lower on one character (weapon names are sequences of characters)
LowerChar(c) ==
    LET up == <<"A", "B", "C", "D", "E", "F", "G", "H", "I", "J", "K", "L",
                "M", "N", "O", "P", "Q", "R", "S", "T", "U", "V", "W", "X",
                "Y", "Z">>
        lo == <<"a", "b", "c", "d", "e", "f", "g", "h", "i", "j", "k", "l",
                "m", "n", "o", "p", "q", "r", "s", "t", "u", "v", "w", "x",
                "y", "z">>
    IN  IF \E i \in DOMAIN up : up[i] = c
        THEN lo[CHOOSE i \in DOMAIN up : up[i] = c]
        ELSE c

normalize_weapon_name(weapon) ==
    IF weapon = <<>> THEN <<>>
    ELSE [i \in DOMAIN weapon |->
            LET c == LowerChar(weapon[i])
            IN  IF c = " " \/ c = "-" THEN "_" ELSE c]

normalize_stat_name(stat, source) ==
    IF source = "riven.market"
    THEN IF stat \in DOMAIN RIVEN_MARKET_TO_CANONICAL
         THEN RIVEN_MARKET_TO_CANONICAL[stat] ELSE NoneStr
    ELSE IF source = "warframe.market"
    THEN IF stat \in DOMAIN WARFRAME_MARKET_TO_CANONICAL
         THEN WARFRAME_MARKET_TO_CANONICAL[stat] ELSE NoneStr
    ELSE NoneStr

\* variant: an unmapped token is dropped instead of failing the listing
normalize_riven_stats_Drop(stat1, stat2, stat3, stat4, source) ==
    LET stats == <<stat1, stat2, stat3, stat4>>
    IN  [i \in 1..4 |->
            IF stats[i] = "" \/ normalize_stat_name(stats[i], source) = NoneStr
            THEN ""
            ELSE normalize_stat_name(stats[i], source)]

normalize_riven_stats(stat1, stat2, stat3, stat4, source) ==
    LET stats == <<stat1, stat2, stat3, stat4>>
        normalized == [i \in 1..4 |->
                          IF stats[i] = "" THEN ""
                          ELSE normalize_stat_name(stats[i], source)]
    IN  IF \E i \in 1..4 : normalized[i] = NoneStr THEN None
        ELSE normalized

\* variant: the positive stats are padded but not sorted
sort_positive_stats_Unsorted(stat1, stat2, stat3, stat4) ==
    LET positives == SelectSeq(<<stat1, stat2, stat3>>, LAMBDA s : s # "")
    IN  positives \o [i \in 1..(3 - Len(positives)) |-> ""] \o <<stat4>>

\* variant: the negative stat is sorted with the positive ones
sort_positive_stats_All(stat1, stat2, stat3, stat4) ==
    LET stats == SelectSeq(<<stat1, stat2, stat3, stat4>>,
                           LAMBDA s : s # "")
        sorted == SortBy(stats, StrLess)
    IN  sorted \o [i \in 1..(4 - Len(sorted)) |-> ""]

sort_positive_stats(stat1, stat2, stat3, stat4) ==
    LET positives == SelectSeq(<<stat1, stat2, stat3>>, LAMBDA s : s # "")
        sorted == SortBy(positives, StrLess)
        padded == sorted \o [i \in 1..(3 - Len(sorted)) |-> ""]
    IN  padded \o <<stat4>>

normalize(weapon, stat1, stat2, stat3, stat4, source) ==
    LET normalized_name == normalize_weapon_name(weapon)
        normalized_stats ==
            normalize_riven_stats(stat1, stat2, stat3, stat4, source)
    IN  IF normalized_stats = None THEN None
        ELSE <<normalized_name>>
                \o sort_positive_stats(normalized_stats[1],
                                       normalized_stats[2],
                                       normalized_stats[3],
                                       normalized_stats[4])

-----------------------------------------------------------------------------
(* sqlite helpers                                                          *)

\* Code-point order of the characters of seller and weapon names
CharOrder ==
    <<" ", "-", "0", "1", "2", "3", "4", "5", "6", "7", "8", "9",
      "A", "B", "C", "D", "E", "F", "G", "H", "I", "J", "K", "L", "M",
      "N", "O", "P", "Q", "R", "S", "T", "U", "V", "W", "X", "Y", "Z",
      "_",
      "a", "b", "c", "d", "e", "f", "g", "h", "i", "j", "k", "l", "m",
      "n", "o", "p", "q", "r", "s", "t", "u", "v", "w", "x", "y", "z">>

CharRank ==
    [c \in Range(CharOrder) |->
        CHOOSE i \in DOMAIN CharOrder : CharOrder[i] = c]

CharLess(a, b) == CharRank[a] < CharRank[b]

\* BINARY collation on two texts given as sequences of characters
TextLess(a, b) ==
    \E i \in 1..(Len(b)) :
        /\ \A j \in 1..(i - 1) : j <= Len(a) /\ a[j] = b[j]
        /\ \/ i = Len(a) + 1
           \/ i <= Len(a) /\ CharLess(a[i], b[i])

\* BINARY collation on two stored stat names ("" sorts first)
StatLess(a, b) == IF a = "" THEN b # "" ELSE b # "" /\ StrLess(a, b)

\* the key columns (weapon, stat1, stat2, stat3, stat4) of a row
Key(r) == <<r.weapon, r.stat1, r.stat2, r.stat3, r.stat4>>

KeyLess(a, b) ==
    \/ TextLess(a[1], b[1])
    \/ /\ a[1] = b[1]
       /\ \E i \in 2..5 : /\ \A j \in 2..(i - 1) : a[j] = b[j]
                          /\ StatLess(a[i], b[i])

\* the elements of a finite set as a sequence in the strict total order Less
SetToSeq(S, Less(_, _)) ==
    LET Place(before) ==
            [k \in 1..Cardinality(S) |->
                CHOOSE x \in DOMAIN before : before[x] = k - 1]
    IN  Place([x \in S |-> Cardinality({y \in S : Less(y, x)})])

RECURSIVE Flatten(_)
Flatten(ss) == IF ss = <<>> THEN <<>> ELSE Head(ss) \o Flatten(Tail(ss))

\* the distinct elements of s in the order of their first occurrence
FirstOccurrences(s) ==
    LET first == SelectSeq([i \in DOMAIN s |-> i],
                           LAMBDA i : \A j \in 1..(i - 1) : s[j] # s[i])
    IN  [k \in DOMAIN first |-> s[first[k]]]

-----------------------------------------------------------------------------
(* poller.py                                                               *)

\* datetime.now() of the scrape: later rows carry later timestamps
NextStamp(rows) ==
    IF rows = {} THEN 1
    ELSE 1 + (CHOOSE t \in {r.scraped_at : r \in rows} :
                 \A r \in rows : r.scraped_at <= t)

\* variant: a listing that fails to normalize is stored as it was scraped
insert_listing_Raw(listing, st) ==
    IF listing.id \notin st.existing_ids
    THEN LET normalized == normalize(listing.weapon, listing.stat1,
                                     listing.stat2, listing.stat3,
                                     listing.stat4, listing.source)
             key == IF normalized = None
                    THEN <<listing.weapon, listing.stat1, listing.stat2,
                           listing.stat3, listing.stat4>>
                    ELSE normalized
             row == [id |-> listing.id,
                     seller |-> listing.seller,
                     source |-> listing.source,
                     weapon |-> key[1],
                     stat1 |-> key[2], stat2 |-> key[3],
                     stat3 |-> key[4], stat4 |-> key[5],
                     price |-> listing.price,
                     scraped_at |-> NextStamp(st.rows)]
         IN  [existing_ids |-> st.existing_ids \cup {listing.id},
              rows |-> {r \in st.rows : r.id # listing.id} \cup {row}]
    ELSE st

\* variant: the id cache is not consulted and INSERT OR REPLACE rewrites
\* the row of a stored id
insert_listing_Replace(listing, st) ==
    LET normalized == normalize(listing.weapon, listing.stat1,
                                listing.stat2, listing.stat3,
                                listing.stat4, listing.source)
    IN  IF normalized = None THEN st
        ELSE LET row == [id |-> listing.id,
                         seller |-> listing.seller,
                         source |-> listing.source,
                         weapon |-> normalized[1],
                         stat1 |-> normalized[2],
                         stat2 |-> normalized[3],
                         stat3 |-> normalized[4],
                         stat4 |-> normalized[5],
                         price |-> listing.price,
                         scraped_at |-> NextStamp(st.rows)]
             IN  [existing_ids |-> st.existing_ids \cup {listing.id},
                  rows |-> {r \in st.rows : r.id # listing.id} \cup {row}]

\* st = [existing_ids, rows]: the id cache of poll() and the pending table
insert_listing(listing, st) ==
    IF listing.id \notin st.existing_ids
    THEN LET normalized == normalize(listing.weapon, listing.stat1,
                                     listing.stat2, listing.stat3,
                                     listing.stat4, listing.source)
         IN  IF normalized = None THEN st
             ELSE LET row == [id |-> listing.id,
                              seller |-> listing.seller,
                              source |-> listing.source,
                              weapon |-> normalized[1],
                              stat1 |-> normalized[2],
                              stat2 |-> normalized[3],
                              stat3 |-> normalized[4],
                              stat4 |-> normalized[5],
                              price |-> listing.price,
                              scraped_at |-> NextStamp(st.rows)]
                  IN  [existing_ids |-> st.existing_ids \cup {listing.id},
                       \* INSERT OR REPLACE
                       rows |-> {r \in st.rows : r.id # listing.id}
                                    \cup {row}]
    ELSE st

\* "for listing in ...: insert_listing(listing, existing_ids, cursor)"
insert_all(batch, st) ==
    LET after[i \in 0..Len(batch)] ==
            IF i = 0 THEN st ELSE insert_listing(batch[i], after[i - 1])
    IN  after[Len(batch)]

\* variant: a failure of one marketplace discards the whole poll
poll_AllOrNothing(rows, rm, wm) ==
    IF rm.ok /\ wm.ok
    THEN insert_all(wm.listings,
                    insert_all(rm.listings,
                               [existing_ids |-> {r.id : r \in rows},
                                rows |-> rows])).rows
    ELSE rows

\* rm, wm: what poll_riven_market() / poll_warframe_market() did:
\* [ok |-> FALSE] it raised, [ok |-> TRUE, listings |-> the list returned]
poll(rows, rm, wm) ==
    LET st0 == [existing_ids |-> {r.id : r \in rows}, rows |-> rows]
        st1 == IF rm.ok THEN insert_all(rm.listings, st0) ELSE st0
        st2 == IF wm.ok THEN insert_all(wm.listings, st1) ELSE st1
    IN  st2.rows

-----------------------------------------------------------------------------
(* aggregator.py                                                           *)

\* variant: a price equal to MAX_PRICE is kept
PriceFilter_Inclusive(price) == price > 0 /\ price <= MAX_PRICE

PriceFilter(price) == price > 0 /\ price < MAX_PRICE

\* variant: MAX(price) in place of MIN(price)
MinOf_Max(S) == CHOOSE x \in S : \A y \in S : x >= y

MinOf(S) == CHOOSE x \in S : \A y \in S : x <= y

\* SELECT weapon, stat1..stat4, MIN(price) FROM listings WHERE price > 0
\* AND price < MAX_PRICE GROUP BY seller, weapon, stat1..stat4; sqlite
\* returns the groups in the order of the GROUP BY columns
DedupQuery(rows) ==
    LET kept == {r \in rows : PriceFilter(r.price)}
        groups == {<<r.seller, Key(r)>> : r \in kept}
        GroupLess(a, b) == \/ TextLess(a[1], b[1])
                           \/ a[1] = b[1] /\ KeyLess(a[2], b[2])
        ordered == SetToSeq(groups, GroupLess)
    IN  [i \in DOMAIN ordered |->
            [key |-> ordered[i][2],
             price |-> MinOf({r.price : r \in
                          {q \in kept : <<q.seller, Key(q)>> = ordered[i]}})]]

\* the dict as the list of its items in insertion order
build_profiles_from_listings(fetched) ==
    LET keys == FirstOccurrences([i \in DOMAIN fetched |-> fetched[i].key])
    IN  [k \in DOMAIN keys |->
            [key |-> keys[k],
             prices |-> LET mine == SelectSeq(fetched,
                                        LAMBDA row : row.key = keys[k])
                        IN  [i \in DOMAIN mine |-> mine[i].price]]]

\* variant: the mean in place of the median
Median_Mean(prices) == [n |-> SeqSum(prices), d |-> Len(prices)]

\* variant: the upper of the two middle values for an even size
Median_High(prices) ==
    LET data == SortBy(prices, LAMBDA a, b : a < b)
    IN  IntFrac(data[Len(data) \div 2 + 1])

\* statistics.median
Median(prices) ==
    LET data == SortBy(prices, LAMBDA a, b : a < b)
        n == Len(data)
        i == n \div 2
    IN  IF n % 2 = 1 THEN IntFrac(data[i + 1])
        ELSE IF (data[i] + data[i + 1]) % 2 = 0
             THEN IntFrac((data[i] + data[i + 1]) \div 2)
             ELSE [n |-> data[i] + data[i + 1], d |-> 2]

aggregate_profiles(profs) ==
    [i \in DOMAIN profs |->
        [weapon |-> profs[i].key[1],
         stat1 |-> profs[i].key[2], stat2 |-> profs[i].key[3],
         stat3 |-> profs[i].key[4], stat4 |-> profs[i].key[5],
         median_price |-> Median(profs[i].prices),
         sample_count |-> Len(profs[i].prices)]]

\* the dict as the list of its values in insertion order
group_profiles_by_weapon(aggregated) ==
    LET weapons == FirstOccurrences(
                       [i \in DOMAIN aggregated |-> aggregated[i].weapon])
    IN  [w \in DOMAIN weapons |->
            SelectSeq(aggregated, LAMBDA p : p.weapon = weapons[w])]

calculate_percentiles(weapon_rolls) ==
    LET sample_counts ==
            [i \in DOMAIN weapon_rolls |-> weapon_rolls[i].sample_count]
        sorted_counts == SortBy(sample_counts, LAMBDA a, b : a < b)
    IN  [i \in DOMAIN weapon_rolls |->
            LET rank == FirstIndex(sorted_counts, sample_counts[i])
            IN  [weapon |-> weapon_rolls[i].weapon,
                 stat1 |-> weapon_rolls[i].stat1,
                 stat2 |-> weapon_rolls[i].stat2,
                 stat3 |-> weapon_rolls[i].stat3,
                 stat4 |-> weapon_rolls[i].stat4,
                 median_price |-> weapon_rolls[i].median_price,
                 sample_count |-> weapon_rolls[i].sample_count,
                 sample_percentile |->
                     [n |-> rank * 100, d |-> Len(sample_counts)]]]

\* variant: the bound is exclusive
PassesThreshold_Strict(percentile) ==
    ~FracLe(percentile, IntFrac(sampleThreshold))

PassesThreshold(percentile) == FracLe(IntFrac(sampleThreshold), percentile)

\* variant: the rolls are sorted by ascending median
determine_godrolls_Ascending(profiles_with_percentiles) ==
    LET top_rolls == SelectSeq(profiles_with_percentiles,
                         LAMBDA r : PassesThreshold(r.sample_percentile))
        sorted == SortBy(top_rolls,
                         LAMBDA a, b : ~FracLe(b.median_price, a.median_price))
    IN  Prefix(sorted, GODROLL_COUNT)

determine_godrolls(profiles_with_percentiles) ==
    LET top_rolls == SelectSeq(profiles_with_percentiles,
                         LAMBDA r : PassesThreshold(r.sample_percentile))
        \* sort(reverse=True) keeps the order of equal medians
        sorted == SortBy(top_rolls,
                         LAMBDA a, b : ~FracLe(a.median_price, b.median_price))
    IN  Prefix(sorted, GODROLL_COUNT)

\* the rolls of all weapons with their percentiles, in the order of the
\* loop of aggregate()
rank_profiles(rows) ==
    LET profs == build_profiles_from_listings(DedupQuery(rows))
        aggregated_weapon_profiles ==
            group_profiles_by_weapon(aggregate_profiles(profs))
    IN  Flatten([w \in DOMAIN aggregated_weapon_profiles |->
            calculate_percentiles(aggregated_weapon_profiles[w])])

\* the rows aggregate() inserts into the new godrolls table
aggregate(rows) ==
    LET profs == build_profiles_from_listings(DedupQuery(rows))
        aggregated_weapon_profiles ==
            group_profiles_by_weapon(aggregate_profiles(profs))
    IN  Flatten([w \in DOMAIN aggregated_weapon_profiles |->
            determine_godrolls(
                calculate_percentiles(aggregated_weapon_profiles[w]))])

-----------------------------------------------------------------------------
(* monitor.py                                                              *)

\* variant: the query without "AND price > 0"
PriceQualifies_NoFloor(price, median_price, threshold) ==
    price * median_price.d * threshold.d <= median_price.n * threshold.n

\* WHERE ... AND price <= median_price * threshold AND price > 0
PriceQualifies(price, median_price, threshold) ==
    /\ price * median_price.d * threshold.d <= median_price.n * threshold.n
    /\ price > 0

\* variant: the query without LIMIT
CheapListings_Unlimited(rows, godroll, threshold) ==
    LET hits == {r \in rows :
                    /\ Key(r) = Key(godroll)
                    /\ PriceQualifies(r.price, godroll.median_price,
                                      threshold)}
    IN  SetToSeq(hits, LAMBDA a, b : a.scraped_at > b.scraped_at)

\* the listing query of find_deals for one godroll
CheapListings(rows, godroll, threshold) ==
    LET hits == {r \in rows :
                    /\ Key(r) = Key(godroll)
                    /\ PriceQualifies(r.price, godroll.median_price,
                                      threshold)}
        ordered == SetToSeq(hits, LAMBDA a, b : a.scraped_at > b.scraped_at)
    IN  Prefix(ordered, WINDOW_LIMIT)

\* variant: the alerted set is not consulted
AlreadyAlerted_Never(listing_id, alertedIds) == FALSE

\* "if listing_id in alerted: continue"
AlreadyAlerted(listing_id, alertedIds) == listing_id \in alertedIds

MakeDeal(listing, godroll) ==
    [id |-> listing.id,
     weapon |-> godroll.weapon,
     stats |-> <<godroll.stat1, godroll.stat2, godroll.stat3, godroll.stat4>>,
     price |-> listing.price,
     median_price |-> godroll.median_price,
     discount_percentage |->
         [n |-> (godroll.median_price.n
                    - listing.price * godroll.median_price.d) * 100,
          d |-> godroll.median_price.n],
     seller |-> listing.seller,
     source |-> listing.source,
     scraped_at |-> listing.scraped_at,
     sample_count |-> godroll.sample_count,
     sample_count_percentile |-> godroll.sample_percentile]

\* variant: the alerted ids are excluded by the query, before the LIMIT
find_deals_SkipFirst(rows, current_godrolls, alertedIds, threshold) ==
    Flatten([g \in DOMAIN current_godrolls |->
        LET fresh == CheapListings({r \in rows : r.id \notin alertedIds},
                                   current_godrolls[g], threshold)
        IN  [i \in DOMAIN fresh |-> MakeDeal(fresh[i], current_godrolls[g])]])

\* the list find_deals returns; alertedIds is the set read at line 52-53
find_deals(rows, current_godrolls, alertedIds, threshold) ==
    Flatten([g \in DOMAIN current_godrolls |->
        LET cheap_listings ==
                CheapListings(rows, current_godrolls[g], threshold)
            fresh == SelectSeq(cheap_listings,
                         LAMBDA l : ~AlreadyAlerted(l.id, alertedIds))
        IN  [i \in DOMAIN fresh |-> MakeDeal(fresh[i], current_godrolls[g])]])

\* variant: the inserts are not committed
MarkAlerted_NoInsert(alertedIds, deals) == alertedIds

\* variant: the table is rewritten with the ids of this call
MarkAlerted_Replace(alertedIds, deals) == {deals[i].id : i \in DOMAIN deals}

\* INSERT OR IGNORE INTO alerted_listings for every deal, then commit
MarkAlerted(alertedIds, deals) ==
    alertedIds \cup {deals[i].id : i \in DOMAIN deals}

-----------------------------------------------------------------------------
(* The environment: marketplaces, the persisted database, the clock        *)

Raw(id, seller, source, weapon, stat1, stat2, stat3, stat4, price) ==
    [id |-> id, seller |-> seller, source |-> source, weapon |-> weapon,
     stat1 |-> stat1, stat2 |-> stat2, stat3 |-> stat3, stat4 |-> stat4,
     price |-> price]

Fetched(batch) == [ok |-> TRUE, listings |-> batch]
FetchFailed == [ok |-> FALSE, listings |-> <<>>]

\* Listings the marketplaces show while the pipeline runs.  All claim the
\* profile (damage, multishot) of one weapon, spelled per marketplace; wm_6
\* carries a riven.market token on warframe.market.
Market ==
    {Raw("rm_3", <<"s", "3">>, "riven.market", <<"X", "-", "Y">>,
         "Multi", "Damage", "", "", 60),
     Raw("wm_4", <<"s", "1">>, "warframe.market", <<"x", "_", "y">>,
         "multishot", "base_damage_/_melee_damage", "", "", 80),
     Raw("rm_5", <<"s", "2">>, "riven.market", <<"X", " ", "Y">>,
         "Damage", "", "Multi", "", 0),
     Raw("wm_6", <<"s", "3">>, "warframe.market", <<"x", "_", "y">>,
         "multishot", "Damage", "", "", 10)}

\* Rows an earlier scrape left in the listings table: four single-seller
\* profiles of the weapon and two sellers of the profile (damage, multishot).
SeedListings ==
    <<Raw("rm_f1", <<"f">>, "riven.market", <<"X", "-", "Y">>,
          "Cold", "", "", "", 100),
      Raw("rm_f2", <<"f">>, "riven.market", <<"X", "-", "Y">>,
          "Heat", "", "", "", 100),
      Raw("rm_f3", <<"f">>, "riven.market", <<"X", "-", "Y">>,
          "Toxin", "", "", "", 100),
      Raw("rm_f4", <<"f">>, "riven.market", <<"X", "-", "Y">>,
          "Slash", "", "", "", 100),
      Raw("rm_1", <<"s", "1">>, "riven.market", <<"X", "-", "Y">>,
          "Damage", "Multi", "", "", 100),
      Raw("wm_2", <<"s", "2">>, "warframe.market", <<"x", "_", "y">>,
          "base_damage_/_melee_damage", "multishot", "", "", 100)>>

NoFetch == [rm |-> Fetched(<<>>), wm |-> Fetched(<<>>)]

NoGodrolls == [exists |-> FALSE, rows |-> <<>>]

NoHour == -1

NoAttempt == [hour |-> NoHour, failed |-> FALSE]

NoBuild == [rows |-> None, dropped |-> <<>>, again |-> FALSE]

IdleFormat ==
    [stats |-> <<"", "", "", "">>, called |-> FALSE, formatted |-> <<>>,
     result |-> ""]

IdleNorm ==
    [weapon |-> <<>>, stat1 |-> "", stat2 |-> "", stat3 |-> "", stat4 |-> "",
     source |-> "", called |-> FALSE, result |-> None]

\* the database before the first aggregate() and monitor() of this run
InitWith(mkt, rows, input, threshold) ==
    /\ market = mkt
    /\ listings = rows
    /\ godrolls = NoGodrolls
    /\ alerted = {}
    /\ profiles = <<>>
    /\ lastDeals = <<>>
    /\ notified = {}
    /\ returnCount = [id \in {m.id : m \in mkt} \cup {r.id : r \in rows} |-> 0]
    /\ pc = "poll"
    /\ trace = <<>>
    /\ today = 1
    /\ marker = 0
    /\ norm = input
    /\ rankedRolls = <<>>
    /\ sampleThreshold = threshold
    /\ lastFetch = NoFetch
    /\ aggregateRuns = 0
    /\ attempt = NoAttempt
    /\ lastBuild = NoBuild
    /\ sinceMatch = "none"

Init ==
    /\ InitWith(Market, poll({}, Fetched(SeedListings), Fetched(<<>>)),
                IdleNorm, SAMPLE_THRESHOLD)
    /\ fmt = IdleFormat

-----------------------------------------------------------------------------
(* riven_sniper.py: run_pipeline, one action per phase                     *)

\* lists of at most MaxBatch distinct listings one marketplace can return
Batches(source) ==
    LET shown == {m \in market : m.source = source}
    IN  {b \in UNION {[1..n -> shown] : n \in 0..MaxBatch} :
            \A i, j \in DOMAIN b : i # j => b[i] # b[j]}

FetchOutcomes(source) ==
    {FetchFailed} \cup {Fetched(b) : b \in Batches(source)}

Polled(rows) == {r \in rows : r.id \in {m.id : m \in market}}

LastPhase == IF trace = <<>> THEN "" ELSE trace[Len(trace)]

\* sinceMatch after a phase that changed, or did not change, a table that
\* find_deals reads
ChangeSeen(since, changed) ==
    IF since # "none" /\ changed THEN "changed" ELSE since

\* poll() raises (the database cannot be opened, read or committed):
\* nothing is committed and run_pipeline returns
PollRaises ==
    /\ pc = "poll"
    /\ trace' = <<"poll:raise">>
    /\ pc' = "poll"
    /\ UNCHANGED <<market, listings, godrolls, alerted, profiles, lastDeals,
                   notified, returnCount, today, marker, norm,
                   rankedRolls, sampleThreshold, lastFetch,
                   aggregateRuns, attempt, lastBuild, sinceMatch, fmt>>

PollReturns ==
    /\ pc = "poll"
    /\ \E rm \in FetchOutcomes("riven.market"),
          wm \in FetchOutcomes("warframe.market") :
            /\ listings' = poll(listings, rm, wm)
            /\ Cardinality(Polled(listings')) <= MaxPolled
            /\ lastFetch' = [rm |-> rm, wm |-> wm]
    /\ sinceMatch' = ChangeSeen(sinceMatch, listings' # listings)
    /\ trace' = <<"poll:ok">>
    /\ pc' = "gate"
    /\ UNCHANGED <<market, godrolls, alerted, profiles, lastDeals, notified,
                   returnCount, today, marker, norm,
                   rankedRolls, sampleThreshold, aggregateRuns,
                   attempt, lastBuild, fmt>>

RunPoll == PollRaises \/ PollReturns

\* variant: the marker file is not consulted
should_aggregate_NoMarker(last_run, date, hour) ==
    IF hour = AGGREGATE_HOUR
    THEN [ret |-> TRUE, marker |-> date]
    ELSE [ret |-> FALSE, marker |-> last_run]

\* variant: the marker file is not written
should_aggregate_NoWrite(last_run, date, hour) ==
    IF last_run # 0 /\ last_run = date
    THEN [ret |-> FALSE, marker |-> last_run]
    ELSE IF hour = AGGREGATE_HOUR
         THEN [ret |-> TRUE, marker |-> last_run]
         ELSE [ret |-> FALSE, marker |-> last_run]

\* [ret |-> the value returned, marker |-> the marker file afterwards]
should_aggregate(last_run, date, hour) ==
    IF last_run # 0 /\ last_run = date
    THEN [ret |-> FALSE, marker |-> last_run]
    ELSE IF hour = AGGREGATE_HOUR
         THEN [ret |-> TRUE, marker |-> date]
         ELSE [ret |-> FALSE, marker |-> last_run]

\* datetime.now().hour as the gate reads it: the aggregation hour and the
\* hours around it stand for the hours of the day
Hours == {AGGREGATE_HOUR - 1, AGGREGATE_HOUR, AGGREGATE_HOUR + 1}

\* How far aggregate() gets.  The DROP TABLE and CREATE TABLE of
\* init_database are committed as they execute (sqlite3 opens no
\* transaction for DDL); the INSERTs are committed by conn.commit().
AggregateOutcomes == {"ok", "raise_connect", "raise_create", "raise_rebuild"}

\* variant: the table is kept and the new rows are added to it; a row the
\* new aggregation does not produce stays
GodrollsAfter_Incremental(outcome, before, rows) ==
    CASE outcome = "ok" ->
            [exists |-> TRUE,
             rows |-> aggregate(rows)
                        \o SelectSeq(before.rows,
                              LAMBDA p : p \notin Range(aggregate(rows)))]
      [] outcome = "raise_connect" -> before
      [] outcome = "raise_create" -> [exists |-> FALSE, rows |-> <<>>]
      [] outcome = "raise_rebuild" -> [exists |-> TRUE, rows |-> <<>>]

GodrollsAfter(outcome, before, rows) ==
    CASE outcome = "ok" -> [exists |-> TRUE, rows |-> aggregate(rows)]
      [] outcome = "raise_connect" -> before
      [] outcome = "raise_create" -> [exists |-> FALSE, rows |-> <<>>]
      [] outcome = "raise_rebuild" -> [exists |-> TRUE, rows |-> <<>>]

\* what lastBuild records after a call of aggregate()
BuildAfter(outcome, build, before, rows) ==
    CASE outcome = "ok" ->
            [rows |-> <<rows>>, dropped |-> before.rows,
             again |-> build.rows = <<rows>>]
      [] outcome = "raise_connect" -> build
      [] outcome \in {"raise_create", "raise_rebuild"} -> NoBuild

RunGate ==
    /\ pc = "gate"
    /\ \E date \in today..MaxDay, hour \in Hours :
          LET gate == should_aggregate(marker, date, hour)
          IN  /\ today' = date
              /\ marker' = gate.marker
              /\ IF gate.ret
                 THEN \E outcome \in AggregateOutcomes :
                        /\ godrolls' = GodrollsAfter(outcome, godrolls,
                                                     listings)
                        /\ profiles' =
                              IF outcome = "ok"
                              THEN build_profiles_from_listings(
                                       DedupQuery(listings))
                              ELSE profiles
                        /\ rankedRolls' =
                              IF outcome = "ok" THEN rank_profiles(listings)
                              ELSE rankedRolls
                        /\ lastBuild' = BuildAfter(outcome, lastBuild,
                                                   godrolls, listings)
                        /\ attempt' = [hour |-> hour,
                                       failed |-> outcome # "ok"]
                        /\ trace' = Append(trace,
                              IF outcome = "ok" THEN "aggregate:ok"
                              ELSE "aggregate:raise")
                 ELSE /\ UNCHANGED <<godrolls, profiles, trace,
                                     rankedRolls, lastBuild>>
                      /\ attempt' = IF date = today THEN attempt
                                    ELSE NoAttempt
              /\ aggregateRuns' =
                    (IF date = today THEN aggregateRuns ELSE 0)
                        + (IF gate.ret THEN 1 ELSE 0)
    /\ sinceMatch' = ChangeSeen(sinceMatch, godrolls' # godrolls)
    /\ lastFetch' = NoFetch
    /\ pc' = "monitor"
    /\ UNCHANGED <<market, listings, alerted, lastDeals, notified,
                   returnCount, norm, sampleThreshold, fmt>>

Occurrences(deals, id) == Cardinality({i \in DOMAIN deals : deals[i].id = id})

\* sinceMatch after a find_deals call that returned: "repeat" when the call
\* read the tables as the returning call before it had read them
AfterMatch(since) == IF since \in {"same", "repeat"} THEN "repeat" ELSE "same"

\* what monitor() leaves of lastBuild: the account of the rebuild itself
\* is forgotten once the phase after it has run
Matched(build) == [build EXCEPT !.dropped = <<>>, !.again = FALSE]

\* variant: every INSERT is committed as it executes
Uncommitted_Autocommit(committed, pending) == pending

\* the table after a connection with pending inserts is given up without
\* conn.commit(): sqlite rolls the open transaction back
Uncommitted(committed, pending) == committed

\* find_deals raises or is interrupted (no godrolls table, or the store
\* fails before the commit) after the INSERTs of the first `reached` deals:
\* the connection is dropped without commit, no list is returned
MonitorRaises ==
    /\ pc = "monitor"
    /\ \E deals \in {IF godrolls.exists
                       THEN find_deals(listings, godrolls.rows, alerted,
                                       DEAL_THRESHOLD)
                       ELSE <<>>} :
           \E reached \in 0..Len(deals) :
               alerted' = Uncommitted(alerted,
                              MarkAlerted(alerted, Prefix(deals, reached)))
    /\ lastDeals' = <<>>
    /\ notified' = {}
    /\ lastBuild' = Matched(lastBuild)
    /\ trace' = Append(trace, "monitor:raise")
    /\ pc' = "poll"
    /\ UNCHANGED <<market, listings, godrolls, profiles,
                   returnCount, today, marker, norm,
                   rankedRolls, sampleThreshold, lastFetch,
                   aggregateRuns, attempt, sinceMatch, fmt>>

\* variant: the listings returned as Deals are deleted from the table
MonitorReturns_Consume ==
    /\ pc = "monitor"
    /\ godrolls.exists
    /\ \E deals \in {find_deals(listings, godrolls.rows, alerted,
                                 DEAL_THRESHOLD)} :
           /\ lastDeals' = deals
           /\ alerted' = MarkAlerted(alerted, deals)
           /\ listings' = {r \in listings :
                              \A i \in DOMAIN deals : deals[i].id # r.id}
           /\ returnCount' = [id \in DOMAIN returnCount |->
                                 returnCount[id] + Occurrences(deals, id)]
           /\ \E failed \in SUBSET {deals[i].id : i \in DOMAIN deals} :
                 /\ Cardinality(failed) <= MaxUndelivered
                 /\ notified' = {deals[i].id : i \in DOMAIN deals} \ failed
    /\ lastBuild' = Matched(lastBuild)
    /\ sinceMatch' = AfterMatch(sinceMatch)
    /\ trace' = Append(trace, "monitor:ok")
    /\ pc' = "poll"
    /\ UNCHANGED <<market, godrolls, profiles, today, marker, norm,
                   rankedRolls, sampleThreshold, lastFetch,
                   aggregateRuns, attempt, fmt>>

\* find_deals returns; every send_alert either delivers or logs the
\* failure, and at most MaxUndelivered of one run fail
MonitorReturns ==
    /\ pc = "monitor"
    /\ godrolls.exists
    /\ \E deals \in {find_deals(listings, godrolls.rows, alerted,
                                 DEAL_THRESHOLD)} :
           /\ lastDeals' = deals
           /\ alerted' = MarkAlerted(alerted, deals)
           /\ returnCount' = [id \in DOMAIN returnCount |->
                                 returnCount[id] + Occurrences(deals, id)]
           /\ \E failed \in SUBSET {deals[i].id : i \in DOMAIN deals} :
                 /\ Cardinality(failed) <= MaxUndelivered
                 /\ notified' = {deals[i].id : i \in DOMAIN deals} \ failed
    /\ lastBuild' = Matched(lastBuild)
    /\ sinceMatch' = AfterMatch(sinceMatch)
    /\ trace' = Append(trace, "monitor:ok")
    /\ pc' = "poll"
    /\ UNCHANGED <<market, listings, godrolls, profiles, today, marker, norm,
                   rankedRolls, sampleThreshold, lastFetch,
                   aggregateRuns, attempt, fmt>>

RunMonitor == MonitorRaises \/ MonitorReturns

Next == RunPoll \/ RunGate \/ RunMonitor

Spec == Init /\ [][Next]_vars

-----------------------------------------------------------------------------
(* normalize as a function of its arguments                                *)

TokenSamples ==
    <<"", "Multi", "Damage", "Cold", "multishot", "zoom", "bogus",
      "ComboGainLost", "critical_chance", "Zoom">>

StatTokens == {TokenSamples[i] : i \in 1..NumTokens}

NormInputs ==
    [weapon : {<<>>, <<"X", "-", "Y">>},
     stat1 : StatTokens, stat2 : StatTokens, stat3 : StatTokens,
     stat4 : StatTokens,
     source : {"riven.market", "warframe.market", "other"},
     called : {FALSE}, result : {None}]

InitNorm ==
    /\ \E input \in NormInputs : InitWith({}, {}, input, SAMPLE_THRESHOLD)
    /\ fmt = IdleFormat

CallNormalize ==
    /\ ~norm.called
    /\ norm' = [norm EXCEPT
                  !.called = TRUE,
                  !.result = normalize(norm.weapon, norm.stat1, norm.stat2,
                                       norm.stat3, norm.stat4, norm.source)]
    /\ UNCHANGED <<market, listings, godrolls, alerted, profiles, lastDeals,
                   notified, returnCount, pc, trace, today, marker,
                   rankedRolls, sampleThreshold, lastFetch,
                   aggregateRuns, attempt, lastBuild, sinceMatch, fmt>>

NextNorm == CallNormalize

SpecNorm == InitNorm /\ [][NextNorm]_vars

-----------------------------------------------------------------------------
(* format_riven_stats as a function of its argument                        *)

\* str.replace("_", " ").title() on a canonical stat name; a sign in front
\* of the name is left as it is
Titled ==
    "ammo_max" :> "Ammo Max" @@ "cold" :> "Cold" @@
    "combo_count_chance" :> "Combo Count Chance" @@
    "combo_count_loss" :> "Combo Count Loss" @@
    "combo_duration" :> "Combo Duration" @@
    "corpus_damage" :> "Corpus Damage" @@ "crit_chance" :> "Crit Chance" @@
    "crit_damage" :> "Crit Damage" @@ "damage" :> "Damage" @@
    "electricity" :> "Electricity" @@ "finisher" :> "Finisher" @@
    "fire_rate" :> "Fire Rate" @@ "grineer_damage" :> "Grineer Damage" @@
    "heat" :> "Heat" @@ "heavy_efficiency" :> "Heavy Efficiency" @@
    "impact" :> "Impact" @@ "infested_damage" :> "Infested Damage" @@
    "initial_combo" :> "Initial Combo" @@ "magazine" :> "Magazine" @@
    "multishot" :> "Multishot" @@ "projectile_speed" :> "Projectile Speed" @@
    "punch_through" :> "Punch Through" @@ "puncture" :> "Puncture" @@
    "range" :> "Range" @@ "recoil" :> "Recoil" @@
    "reload_speed" :> "Reload Speed" @@ "slash" :> "Slash" @@
    "slide_crit_chance" :> "Slide Crit Chance" @@
    "status_chance" :> "Status Chance" @@
    "status_duration" :> "Status Duration" @@ "toxin" :> "Toxin" @@
    "zoom" :> "Zoom"

\* " ".join(words)
JoinWords(words) ==
    LET joined[i \in 0..Len(words)] ==
            IF i = 0 THEN ""
            ELSE IF i = 1 THEN words[1]
            ELSE joined[i - 1] \o " " \o words[i]
    IN  joined[Len(words)]

inverted_stats == {"reload_speed", "recoil"}

PositiveSign(stat) == IF stat \in inverted_stats THEN "-" ELSE "+"

\* variant: the negative stat is always written with "-"
NegativeSign_Plain(stat) == "-"

NegativeSign(stat) == IF stat \in inverted_stats THEN "+" ELSE "-"

\* the list `formatted` that format_riven_stats builds
FormattedStats(stats) ==
    LET positives == SelectSeq(SubSeq(stats, 1, Len(stats) - 1),
                               LAMBDA s : s # "")
        negative == stats[Len(stats)]
    IN  [i \in DOMAIN positives |->
            <<PositiveSign(positives[i]), positives[i]>>]
        \o (IF negative # "" THEN <<<<NegativeSign(negative), negative>>>>
            ELSE <<>>)

format_riven_stats(stats) ==
    LET formatted == FormattedStats(stats)
    IN  JoinWords([i \in DOMAIN formatted |->
                      formatted[i][1] \o Titled[formatted[i][2]]])

\* stat names format_riven_stats is called with
FormatStats == {"", "damage", "multishot", "reload_speed", "recoil", "zoom"}

FormatInputs == [1..4 -> FormatStats]

InitFormat ==
    /\ InitWith({}, {}, IdleNorm, SAMPLE_THRESHOLD)
    /\ \E stats \in FormatInputs : fmt = [IdleFormat EXCEPT !.stats = stats]

CallFormat ==
    /\ ~fmt.called
    /\ fmt' = [fmt EXCEPT
                 !.called = TRUE,
                 !.formatted = FormattedStats(fmt.stats),
                 !.result = format_riven_stats(fmt.stats)]
    /\ UNCHANGED <<market, listings, godrolls, alerted, profiles, lastDeals,
                   notified, returnCount, pc, trace, today, marker, norm,
                   rankedRolls, sampleThreshold, lastFetch,
                   aggregateRuns, attempt, lastBuild, sinceMatch>>

NextFormat == CallFormat

SpecFormat == InitFormat /\ [][NextFormat]_vars

-----------------------------------------------------------------------------
(* The end-to-end scenario of the specification                            *)

\* the profile (damage, multishot) of weapon X
E2EKey == <<<<"x">>, "damage", "multishot", "", "">>

\* five sellers at 100 and one further seller at 500
E2EListings ==
    <<Raw("rm_a", <<"a">>, "riven.market", <<"X">>,
          "Damage", "Multi", "", "", 100),
      Raw("rm_b", <<"b">>, "riven.market", <<"X">>,
          "Multi", "Damage", "", "", 100),
      Raw("rm_c", <<"c">>, "riven.market", <<"X">>,
          "Damage", "Multi", "", "", 100),
      Raw("wm_d", <<"d">>, "warframe.market", <<"x">>,
          "multishot", "base_damage_/_melee_damage", "", "", 100),
      Raw("wm_e", <<"e">>, "warframe.market", <<"x">>,
          "base_damage_/_melee_damage", "multishot", "", "", 100),
      Raw("rm_g", <<"g">>, "riven.market", <<"X">>,
          "Damage", "Multi", "", "", 500)>>

\* single-seller listings of other profiles of weapon X
E2EFillers ==
    <<Raw("rm_f1", <<"f">>, "riven.market", <<"X">>, "Cold", "", "", "", 100),
      Raw("rm_f2", <<"f">>, "riven.market", <<"X">>, "Heat", "", "", "", 100),
      Raw("rm_f3", <<"f">>, "riven.market", <<"X">>, "Toxin", "", "", "", 100),
      Raw("rm_f4", <<"f">>, "riven.market", <<"X">>, "Slash", "", "", "", 100)>>

\* the new listing at 55, and one at 61 that is no deal
E2EMarket ==
    {Raw("rm_new", <<"n">>, "riven.market", <<"X">>,
         "Multi", "Damage", "", "", 55),
     Raw("wm_hi", <<"h">>, "warframe.market", <<"x">>,
         "multishot", "base_damage_/_melee_damage", "", "", 61)}

InitE2E ==
    /\ \E k \in 0..Len(E2EFillers) :
          InitWith(E2EMarket,
                   poll({}, Fetched(E2EListings \o Prefix(E2EFillers, k)),
                        Fetched(<<>>)),
                   IdleNorm, SAMPLE_THRESHOLD)
    /\ fmt = IdleFormat

SpecE2E == InitE2E /\ [][Next]_vars

-----------------------------------------------------------------------------
(* Aggregation over prepared listings tables                               *)

Letters ==
    <<"a", "b", "c", "d", "e", "f", "g", "h", "i", "j",
      "k", "l", "m", "n", "o", "p", "q", "r", "s", "t">>

\* riven.market listings of one roll: seller number i asks prices[i]
Offers(prefix, weapon, stat, prices) ==
    [i \in DOMAIN prices |->
        Raw(prefix \o ToString(i), <<Letters[i]>>, "riven.market", weapon,
            stat, "", "", "", prices[i])]

\* sample lists of odd and of even size
AggMedian ==
    Offers("rm_c", <<"M">>, "Cold", <<30, 10, 20>>)
        \o Offers("rm_h", <<"M">>, "Heat", <<20, 10>>)
        \o Offers("rm_t", <<"M">>, "Toxin", <<10, 25>>)
        \o Offers("rm_s", <<"M">>, "Slash", <<7>>)

\* weapon P with sample counts 1, 5, 10, 20; weapon Q with a tie
AggPercentile ==
    Offers("rm_c", <<"P">>, "Cold", [i \in 1..1 |-> 100])
        \o Offers("rm_h", <<"P">>, "Heat", [i \in 1..5 |-> 100])
        \o Offers("rm_t", <<"P">>, "Toxin", [i \in 1..10 |-> 100])
        \o Offers("rm_s", <<"P">>, "Slash", [i \in 1..20 |-> 100])
        \o Offers("rm_qc", <<"Q">>, "Cold", <<100, 100>>)
        \o Offers("rm_qh", <<"Q">>, "Heat", <<100, 100>>)

\* seven single-seller rolls of weapon T, two of them with equal medians
AggTopN ==
    Offers("rm_c", <<"T">>, "Cold", <<30>>)
        \o Offers("rm_h", <<"T">>, "Heat", <<70>>)
        \o Offers("rm_t", <<"T">>, "Toxin", <<10>>)
        \o Offers("rm_s", <<"T">>, "Slash", <<50>>)
        \o Offers("rm_i", <<"T">>, "Impact", <<30>>)
        \o Offers("rm_p", <<"T">>, "Puncture", <<60>>)
        \o Offers("rm_e", <<"T">>, "Electric", <<40>>)

\* prices on both sides of the two limits of the price filter; every
\* listing of the roll Heat is outside of them
AggFilter ==
    Offers("rm_c", <<"F">>, "Cold", <<MAX_PRICE, MAX_PRICE - 1, 0, 1>>)
        \o Offers("rm_d", <<"F">>, "Cold", <<5>>)
        \o Offers("rm_h", <<"F">>, "Heat", <<0, MAX_PRICE, MAX_PRICE + 1>>)

AggTables == <<AggMedian, AggPercentile, AggTopN, AggFilter>>

\* values of SAMPLE_THRESHOLD an installation is configured with
Thresholds == {0, 75, SAMPLE_THRESHOLD}

\* one more seller of the roll Cold of weapon M
AggMarket ==
    {Raw("rm_new", <<"d">>, "riven.market", <<"M">>, "Cold", "", "", "", 40)}

InitAgg ==
    /\ \E t \in DOMAIN AggTables, threshold \in Thresholds :
          InitWith(AggMarket,
                   poll({}, Fetched(AggTables[t]), Fetched(<<>>)),
                   IdleNorm, threshold)
    /\ fmt = IdleFormat

SpecAgg == InitAgg /\ [][Next]_vars

-----------------------------------------------------------------------------
-----------------------------------------------------------------------------
(* Matching against more cheap listings than the window of find_deals      *)

\* the roll Damage of weapon W: three sellers at 100 and one seller z with
\* k listings far below; four single-seller rolls make it a godroll
WindowListings(k) ==
    Offers("rm_c", <<"W">>, "Cold", <<100>>)
        \o Offers("rm_h", <<"W">>, "Heat", <<100>>)
        \o Offers("rm_t", <<"W">>, "Toxin", <<100>>)
        \o Offers("rm_s", <<"W">>, "Slash", <<100>>)
        \o Offers("rm_d", <<"W">>, "Damage", <<100, 100, 100>>)
        \o [i \in 1..k |->
               Raw("rm_z" \o ToString(i), <<"z">>, "riven.market", <<"W">>,
                   "Damage", "", "", "", 10 + i)]

\* numbers of cheap listings: as many as the window holds, and one more
WindowSizes == {WINDOW_LIMIT, WINDOW_LIMIT + 1}

\* a new cheap listing, and the same listing shown with another price
WindowMarket ==
    {Raw("rm_new", <<"z">>, "riven.market", <<"W">>,
         "Damage", "", "", "", 20),
     Raw("rm_new", <<"z">>, "riven.market", <<"W">>,
         "Damage", "", "", "", 25)}

InitWindow ==
    /\ \E k \in WindowSizes :
          InitWith(WindowMarket,
                   poll({}, Fetched(WindowListings(k)), Fetched(<<>>)),
                   IdleNorm, SAMPLE_THRESHOLD)
    /\ fmt = IdleFormat

SpecWindow == InitWindow /\ [][Next]_vars

-----------------------------------------------------------------------------
(* Properties                                                              *)

DealIds == {lastDeals[i].id : i \in DOMAIN lastDeals}

\* the listing still satisfies the query of find_deals for some godroll
StillQualifies(r) ==
    \E j \in DOMAIN godrolls.rows :
        /\ Key(r) = Key(godrolls.rows[j])
        /\ r.price > 0
        /\ r.price * godrolls.rows[j].median_price.d * DEAL_THRESHOLD.d
              <= godrolls.rows[j].median_price.n * DEAL_THRESHOLD.n

\* C1: over all find_deals calls of a run, with polls and aggregations in
\* between, no listing id is carried by more than one Deal: not twice in
\* one result and never again in a later result.
C1_NoIdReturnedTwice == \A id \in DOMAIN returnCount : returnCount[id] <= 1

\* a later call returned nothing although a listing returned by an earlier
\* call still satisfies the price condition
C1_Witness ==
    /\ pc = "poll" /\ LastPhase = "monitor:ok" /\ lastDeals = <<>>
    /\ \E r \in listings : returnCount[r.id] = 1 /\ StillQualifies(r)

\* C2: the id of every Deal find_deals returned is in the committed
\* alerted_listings table, whether or not its notification was delivered.
C2_ReturnedDealsAreAlerted == \A i \in DOMAIN lastDeals : lastDeals[i].id \in alerted

\* a Deal whose delivery failed is marked alerted all the same
C2_Witness ==
    \E i \in DOMAIN lastDeals :
        lastDeals[i].id \notin notified /\ lastDeals[i].id \in alerted

\* C3: when aggregate() raises, the godrolls table holds the rows it held
\* before the call.
C3_FailedRebuildKeepsRows ==
    [][(pc = "gate" /\ LastPhase' = "aggregate:raise")
          => godrolls'.rows = godrolls.rows]_vars

\* C4: a cycle of run_pipeline never ends without the match phase: also
\* after poll() or aggregate() raised, monitor() runs in that cycle.
C4_MonitorRunsInEveryCycle ==
    (pc = "poll" /\ trace # <<>>)
        => LastPhase \in {"monitor:ok", "monitor:raise"}

\* C5: no step of poll, aggregate or monitor removes an id from
\* alerted_listings.
C5_AlertedOnlyGrows == [][alerted \subseteq alerted']_vars

\* an alerted listing that no godroll of the rebuilt table matches any more
C5_Witness ==
    /\ godrolls.exists /\ godrolls.rows # <<>>
    /\ \E r \in listings : r.id \in alerted /\ ~StillQualifies(r)

\* C6: normalize returns the same result for every permutation of the
\* three positive slots, empty slots included.
C6_OrderIndependent ==
    norm.called =>
        \A p \in Permutations({1, 2, 3}) :
            LET pos == <<norm.stat1, norm.stat2, norm.stat3>>
            IN  normalize(norm.weapon, pos[p[1]], pos[p[2]], pos[p[3]],
                          norm.stat4, norm.source) = norm.result

\* three different positive stats given in an order the key does not keep
C6_Witness ==
    /\ norm.called /\ norm.result # None
    /\ Cardinality({norm.stat1, norm.stat2, norm.stat3} \ {""}) = 3
    /\ norm.result[2] # normalize_stat_name(norm.stat1, norm.source)

\* the tokens the dictionary of a source knows
KnownTokens(source) ==
    IF source = "riven.market" THEN DOMAIN RIVEN_MARKET_TO_CANONICAL
    ELSE IF source = "warframe.market" THEN DOMAIN WARFRAME_MARKET_TO_CANONICAL
    ELSE {}

\* C7: normalize returns None exactly when some non-empty token of
\* stat1..stat4 is not in the dictionary of the given source.
C7_FailsIffUnmapped ==
    norm.called =>
        ((norm.result = None)
            <=> \E t \in {norm.stat1, norm.stat2, norm.stat3, norm.stat4} :
                    t # "" /\ t \notin KnownTokens(norm.source))

\* one token known only to the other marketplace fails the whole listing
C7_Witness ==
    /\ norm.called /\ norm.result = None
    /\ norm.source = "riven.market"
    /\ norm.stat1 \in KnownTokens("riven.market")
    /\ norm.stat2 \in KnownTokens("riven.market")
    /\ norm.stat3 \in KnownTokens("warframe.market")
    /\ norm.stat4 \in KnownTokens("riven.market")

\* C8: every Deal of the last result pairs a listing with a godroll of the
\* table the call read that has the listing's key, and the listing's price
\* satisfies 0 < price <= median_price * DEAL_THRESHOLD.
C8_DealsMatchKeyAndPrice ==
    pc \in {"poll", "gate"} =>
        \A i \in DOMAIN lastDeals :
            LET d == lastDeals[i]
            IN  /\ \E r \in listings :
                      /\ r.id = d.id /\ r.price = d.price
                      /\ Key(r) = <<d.weapon>> \o d.stats
                /\ \E j \in DOMAIN godrolls.rows :
                      /\ Key(godrolls.rows[j]) = <<d.weapon>> \o d.stats
                      /\ godrolls.rows[j].median_price = d.median_price
                /\ 0 < d.price
                /\ d.price * d.median_price.d * DEAL_THRESHOLD.d
                      <= d.median_price.n * DEAL_THRESHOLD.n

\* a Deal priced exactly at median_price * DEAL_THRESHOLD, while listings of
\* the same key priced 0 and above the limit were passed over
C8_Witness ==
    /\ pc = "poll"
    /\ \E i \in DOMAIN lastDeals :
          LET d == lastDeals[i]
          IN  /\ d.price * d.median_price.d * DEAL_THRESHOLD.d
                    = d.median_price.n * DEAL_THRESHOLD.n
              /\ \E r \in listings :
                    /\ Key(r) = <<d.weapon>> \o d.stats
                    /\ r.price = 0 /\ r.id \notin alerted
              /\ \E r \in listings :
                    /\ Key(r) = <<d.weapon>> \o d.stats
                    /\ r.price * d.median_price.d * DEAL_THRESHOLD.d
                          > d.median_price.n * DEAL_THRESHOLD.n
                    /\ r.id \notin alerted

\* the godroll row of the end-to-end profile, if the table has one
E2EGodrolls ==
    {godrolls.rows[j] : j \in {i \in DOMAIN godrolls.rows :
                                  Key(godrolls.rows[i]) = E2EKey}}

\* the rows of the end-to-end profile are the six of the scenario
E2ESixListed ==
    {r.id : r \in {q \in listings : Key(q) = E2EKey}}
        = {E2EListings[i].id : i \in DOMAIN E2EListings}

\* the profiles of weapon X that aggregate() ranks, with their sellers
E2ESellers(k) ==
    {r.seller : r \in {q \in listings :
                          Key(q) = k /\ q.price > 0 /\ q.price < MAX_PRICE}}
E2EKeys ==
    {Key(r) : r \in {q \in listings :
                        /\ q.weapon = E2EKey[1]
                        /\ q.price > 0 /\ q.price < MAX_PRICE}}

\* C9 as stated: aggregating the six listings yields a godroll of the
\* profile with median 100 and sample_count 6, and a new listing at 55 is
\* returned as a Deal with discount 45.
C9_EndToEndAsStated ==
    /\ (pc = "monitor" /\ LastPhase = "aggregate:ok" /\ E2ESixListed)
          => \E g \in E2EGodrolls :
                g.median_price = IntFrac(100) /\ g.sample_count = 6
    /\ (pc = "poll" /\ LastPhase = "monitor:ok" /\ godrolls.exists
          /\ \E r \in listings : r.id = "rm_new")
          => returnCount["rm_new"] = 1

\* C9, amended: aggregating the six listings gives the profile the baseline
\* median 100 / sample_count 6, and a godroll row exactly when its
\* percentile among the profiles of weapon X reaches SAMPLE_THRESHOLD; when
\* the matcher reads that godroll, a listing at 55 has been returned once,
\* as a Deal with discount 45.
C9_EndToEnd ==
    /\ (pc = "monitor" /\ LastPhase = "aggregate:ok" /\ E2ESixListed)
          => /\ \A g \in E2EGodrolls :
                   g.median_price = IntFrac(100) /\ g.sample_count = 6
             /\ (E2EGodrolls # {}) <=>
                   (100 * Cardinality({k \in E2EKeys :
                        Cardinality(E2ESellers(k))
                            < Cardinality(E2ESellers(E2EKey))})
                       >= SAMPLE_THRESHOLD * Cardinality(E2EKeys))
    /\ (pc = "poll" /\ LastPhase = "monitor:ok"
          /\ (\E g \in E2EGodrolls : g.median_price = IntFrac(100))
          /\ \E r \in listings : r.id = "rm_new")
          => /\ returnCount["rm_new"] = 1
             /\ \A i \in DOMAIN lastDeals :
                   lastDeals[i].id = "rm_new" =>
                      /\ lastDeals[i].price = 55
                      /\ lastDeals[i].discount_percentage.n
                            = 45 * lastDeals[i].discount_percentage.d

\* the listing at 55 is returned against the godroll built from the six
C9_Witness ==
    /\ pc = "poll" /\ LastPhase = "monitor:ok"
    /\ \E i \in DOMAIN lastDeals :
          /\ lastDeals[i].id = "rm_new"
          /\ lastDeals[i].median_price = IntFrac(100)
          /\ lastDeals[i].sample_count = 6
          /\ FracEq(lastDeals[i].discount_percentage, IntFrac(45))

\* C10: the price list of every profile holds one price per seller that
\* has a listing of the profile passing the price filter, and that price is
\* the seller's lowest such listing.
C10_PerSellerMinimum ==
    (pc = "monitor" /\ LastPhase = "aggregate:ok") =>
        LET kept == {r \in listings : r.price > 0 /\ r.price < MAX_PRICE}
            SellersOf(k) == {r.seller : r \in {q \in kept : Key(q) = k}}
            IsLowest(v, sel, k) ==
                /\ \E r \in kept : r.seller = sel /\ Key(r) = k /\ r.price = v
                /\ \A r \in kept :
                      (r.seller = sel /\ Key(r) = k) => v <= r.price
        IN  /\ {profiles[i].key : i \in DOMAIN profiles}
                  = {Key(r) : r \in kept}
            /\ \A i, j \in DOMAIN profiles :
                  i # j => profiles[i].key # profiles[j].key
            /\ \A i \in DOMAIN profiles :
                  LET k == profiles[i].key
                      prices == profiles[i].prices
                  IN  /\ Len(prices) = Cardinality(SellersOf(k))
                      /\ \A v \in Range(prices) :
                            Cardinality({n \in DOMAIN prices : prices[n] = v})
                               = Cardinality({sel \in SellersOf(k) :
                                                 IsLowest(v, sel, k)})

\* a seller lists one profile at 100 and at 80 and contributes only the 80
C10_Witness ==
    /\ pc = "monitor" /\ LastPhase = "aggregate:ok"
    /\ \E r1, r2 \in listings :
          /\ r1.seller = r2.seller /\ Key(r1) = Key(r2)
          /\ r1.price = 100 /\ r2.price = 80
          /\ \E i \in DOMAIN profiles :
                /\ profiles[i].key = Key(r1)
                /\ 80 \in Range(profiles[i].prices)
                /\ Len(profiles[i].prices)
                      = Cardinality({r.seller : r \in
                            {q \in listings : Key(q) = Key(r1)}})

\* a successful aggregate() has just returned
AfterAggregation == pc = "monitor" /\ LastPhase = "aggregate:ok"

\* the ranked roll of a profile key
RollOf(key) ==
    rankedRolls[CHOOSE i \in DOMAIN rankedRolls : Key(rankedRolls[i]) = key]

\* sellers with a listing of the key that passes the price filter
SampleSellers(key) ==
    {r.seller : r \in {q \in listings :
                          Key(q) = key /\ q.price > 0 /\ q.price < MAX_PRICE}}

\* C11: median_price is the middle value of the profile's sample list for
\* an odd size and the mean of the two middle values for an even size;
\* sample_count is the size of the list, the number of distinct sellers
\* with a price-filtered listing of the profile.
C11_MedianAndCount ==
    AfterAggregation =>
        /\ Len(rankedRolls) = Len(profiles)
        /\ \A i \in DOMAIN profiles :
              \E j \in DOMAIN rankedRolls :
                  Key(rankedRolls[j]) = profiles[i].key
        /\ \A i \in DOMAIN profiles :
              LET prices == profiles[i].prices
                  n == Len(prices)
                  roll == RollOf(profiles[i].key)
                  \* the k-th smallest sample
                  Kth(k) == CHOOSE v \in Range(prices) :
                      /\ Cardinality({j \in DOMAIN prices : prices[j] < v}) < k
                      /\ k <= Cardinality({j \in DOMAIN prices :
                                              prices[j] <= v})
              IN  /\ roll.sample_count = n
                  /\ n = Cardinality(SampleSellers(profiles[i].key))
                  /\ IF n % 2 = 1
                     THEN roll.median_price.n
                             = Kth((n + 1) \div 2) * roll.median_price.d
                     ELSE 2 * roll.median_price.n
                             = (Kth(n \div 2) + Kth(n \div 2 + 1))
                                  * roll.median_price.d

\* the samples 10, 20, 30 give 20 and the samples 10, 20 give 15
C11_Witness ==
    /\ AfterAggregation
    /\ \E i, j \in DOMAIN profiles :
          /\ Len(profiles[i].prices) = 3
          /\ Range(profiles[i].prices) = {10, 20, 30}
          /\ FracEq(RollOf(profiles[i].key).median_price, IntFrac(20))
          /\ RollOf(profiles[i].key).sample_count = 3
          /\ Len(profiles[j].prices) = 2
          /\ Range(profiles[j].prices) = {10, 20}
          /\ FracEq(RollOf(profiles[j].key).median_price, IntFrac(15))
          /\ RollOf(profiles[j].key).sample_count = 2

\* C12: the sample_percentile of a roll is 100 * (number of rolls of its
\* weapon with a strictly smaller sample_count) / (number of rolls of its
\* weapon); rolls of other weapons do not enter it.
C12_PercentileWithinWeapon ==
    AfterAggregation =>
        \A i \in DOMAIN rankedRolls :
            LET roll == rankedRolls[i]
                family == {j \in DOMAIN rankedRolls :
                              rankedRolls[j].weapon = roll.weapon}
                below == {j \in family :
                             rankedRolls[j].sample_count < roll.sample_count}
            IN  roll.sample_percentile.n * Cardinality(family)
                    = 100 * Cardinality(below) * roll.sample_percentile.d

\* two rolls of one weapon share a sample_count and the lower-bound
\* percentile, while a roll of another weapon stands at 75
C12_Witness ==
    /\ AfterAggregation
    /\ \E i, j, k \in DOMAIN rankedRolls :
          /\ i # j
          /\ rankedRolls[i].weapon = rankedRolls[j].weapon
          /\ rankedRolls[i].sample_count = rankedRolls[j].sample_count
          /\ FracEq(rankedRolls[i].sample_percentile, IntFrac(0))
          /\ FracEq(rankedRolls[j].sample_percentile, IntFrac(0))
          /\ rankedRolls[k].weapon # rankedRolls[i].weapon
          /\ rankedRolls[k].sample_count > rankedRolls[i].sample_count
          /\ FracEq(rankedRolls[k].sample_percentile, IntFrac(75))

\* the godrolls table holds the ranked roll with this key
IsGodroll(roll) ==
    \E g \in DOMAIN godrolls.rows : godrolls.rows[g] = roll

\* C13: every godroll is a ranked roll with sample_percentile >=
\* SAMPLE_THRESHOLD; in a weapon whose rolls have the sample counts 1, 5,
\* 10, 20 the roll with count 20 has percentile 75 and is a godroll exactly
\* when the threshold is at most 75.
C13_ThresholdInclusive ==
    AfterAggregation =>
        /\ \A g \in DOMAIN godrolls.rows :
              /\ \E i \in DOMAIN rankedRolls : rankedRolls[i] = godrolls.rows[g]
              /\ godrolls.rows[g].sample_percentile.n
                    >= sampleThreshold * godrolls.rows[g].sample_percentile.d
        /\ \A i \in DOMAIN rankedRolls :
              LET roll == rankedRolls[i]
                  family == {j \in DOMAIN rankedRolls :
                                rankedRolls[j].weapon = roll.weapon}
              IN  (/\ Cardinality(family) = 4
                   /\ {rankedRolls[j].sample_count : j \in family}
                         = {1, 5, 10, 20}
                   /\ roll.sample_count = 20)
                  => /\ FracEq(roll.sample_percentile, IntFrac(75))
                     /\ IsGodroll(roll) <=> (sampleThreshold <= 75)

\* with the threshold at 75 the roll at percentile 75 is a godroll
C13_Witness ==
    /\ AfterAggregation
    /\ sampleThreshold = 75
    /\ \E g \in DOMAIN godrolls.rows :
          /\ godrolls.rows[g].sample_count = 20
          /\ FracEq(godrolls.rows[g].sample_percentile, IntFrac(75))

\* C14: per weapon the godrolls number at most GODROLL_COUNT, stand in the
\* table by descending median_price, and are the rolls above the threshold
\* with the highest medians: as many as GODROLL_COUNT allows, and no roll
\* left out has a higher median than one that was kept.
C14_TopRollsPerWeapon ==
    AfterAggregation =>
        \A w \in {rankedRolls[i].weapon : i \in DOMAIN rankedRolls} :
            LET kept == {g \in DOMAIN godrolls.rows :
                            godrolls.rows[g].weapon = w}
                passing == {i \in DOMAIN rankedRolls :
                    /\ rankedRolls[i].weapon = w
                    /\ rankedRolls[i].sample_percentile.n
                          >= sampleThreshold
                                * rankedRolls[i].sample_percentile.d}
                median(g) == godrolls.rows[g].median_price
            IN  /\ Cardinality(kept) <= GODROLL_COUNT
                /\ Cardinality(kept) =
                      IF Cardinality(passing) < GODROLL_COUNT
                      THEN Cardinality(passing) ELSE GODROLL_COUNT
                /\ \A g \in kept :
                      \E i \in passing : rankedRolls[i] = godrolls.rows[g]
                /\ \A g, h \in kept :
                      g < h => FracLe(median(h), median(g))
                /\ \A i \in passing :
                      ~IsGodroll(rankedRolls[i]) =>
                          \A g \in kept :
                              FracLe(rankedRolls[i].median_price, median(g))

\* seven rolls of one weapon pass: five are kept, and of two rolls with
\* the same median one is kept and one is left out
C14_Witness ==
    /\ AfterAggregation
    /\ Cardinality({g \in DOMAIN godrolls.rows :
                       godrolls.rows[g].weapon = godrolls.rows[1].weapon})
          = GODROLL_COUNT
    /\ \E i, j \in DOMAIN rankedRolls :
          /\ rankedRolls[i].weapon = godrolls.rows[1].weapon
          /\ rankedRolls[j].weapon = godrolls.rows[1].weapon
          /\ IsGodroll(rankedRolls[i]) /\ ~IsGodroll(rankedRolls[j])
          /\ rankedRolls[i].median_price = rankedRolls[j].median_price
    /\ \E j \in DOMAIN rankedRolls :
          /\ rankedRolls[j].weapon = godrolls.rows[1].weapon
          /\ ~IsGodroll(rankedRolls[j])
          /\ \A g \in DOMAIN godrolls.rows :
                ~FracLe(godrolls.rows[g].median_price,
                        rankedRolls[j].median_price)

C16_KeyLayout ==
    (norm.called /\ norm.result # None) =>
        LET key == norm.result
            dict == IF norm.source = "riven.market"
                    THEN RIVEN_MARKET_TO_CANONICAL
                    ELSE WARFRAME_MARKET_TO_CANONICAL
            canon(t) == IF t = "" THEN "" ELSE dict[t]
            given == <<canon(norm.stat1), canon(norm.stat2),
                       canon(norm.stat3)>>
            Times(name, s) == Cardinality({i \in 1..3 : s[i] = name})
        IN  /\ Len(key) = 5
            /\ \A i \in 2..3 : key[i] = "" => key[i + 1] = ""
            /\ \A i \in 2..3 :
                  key[i + 1] # "" => StrRank[key[i]] <= StrRank[key[i + 1]]
            /\ \A name \in {given[i] : i \in 1..3} \cup {""} :
                  Times(name, given) = Times(name, <<key[2], key[3], key[4]>>)
            /\ key[5] = canon(norm.stat4)

\* positives given behind an empty slot, and a negative stat whose name
\* sorts before the first positive of the key
C16_Witness ==
    /\ norm.called /\ norm.result # None
    /\ norm.stat1 = "" /\ norm.stat2 # "" /\ norm.stat3 # ""
    /\ norm.result[2] # "" /\ norm.result[3] # "" /\ norm.result[4] = ""
    /\ norm.result[2] # norm.result[3]
    /\ norm.result[5] # ""
    /\ StrRank[norm.result[5]] < StrRank[norm.result[2]]

\* the raw listings the rows of the table were scraped from
Scraped == market \cup Range(SeedListings)

ScrapedKey(raw) ==
    normalize(raw.weapon, raw.stat1, raw.stat2, raw.stat3, raw.stat4,
              raw.source)

\* C17: every row of listings carries the key that normalize returns for
\* the scraped listing with its id; a listing whose normalization fails has
\* no row; the listings that follow it in the batch are inserted.
C17_RowsAreNormalized ==
    /\ \A r \in listings :
          \E raw \in Scraped :
              /\ raw.id = r.id
              /\ ScrapedKey(raw) # None
              /\ Key(r) = ScrapedKey(raw)
              /\ r.seller = raw.seller /\ r.source = raw.source
              /\ r.price = raw.price
    /\ \A raw \in Scraped :
          ScrapedKey(raw) = None => \A r \in listings : r.id # raw.id
    /\ pc = "gate" =>
          \A source \in {"rm", "wm"} :
              \A i \in DOMAIN lastFetch[source].listings :
                  ScrapedKey(lastFetch[source].listings[i]) # None
                      => \E r \in listings :
                            r.id = lastFetch[source].listings[i].id

\* a batch whose first listing fails to normalize and whose second listing
\* is inserted by the same poll()
C17_Witness ==
    /\ pc = "gate" /\ LastPhase = "poll:ok"
    /\ \E source \in {"rm", "wm"} :
          LET batch == lastFetch[source].listings
          IN  /\ lastFetch[source].ok
              /\ Len(batch) = 2
              /\ ScrapedKey(batch[1]) = None
              /\ ScrapedKey(batch[2]) # None
              /\ \A r \in listings : r.id # batch[1].id
              /\ \E r \in listings :
                    /\ r.id = batch[2].id
                    /\ r.scraped_at = NextStamp(listings \ {r})

\* ids of the listings of a fetched batch that normalize
InsertableIds(fetched) ==
    {fetched.listings[i].id : i \in {j \in DOMAIN fetched.listings :
                                        ScrapedKey(fetched.listings[j]) # None}}

\* C18: when one marketplace fails in a poll(), poll() returns normally,
\* the rows already in the table stay, and the table gains exactly the
\* insertable listings of the marketplace that answered.
C18_FetchFailureIsolated ==
    [][(pc = "poll" /\ pc' = "gate") =>
          LET ids == {r.id : r \in listings}
              ids2 == {r.id : r \in listings'}
              rm == lastFetch'.rm
              wm == lastFetch'.wm
          IN  /\ LastPhase' = "poll:ok"
              /\ listings \subseteq listings'
              /\ (~rm.ok /\ wm.ok) => ids2 = ids \cup InsertableIds(wm)
              /\ (rm.ok /\ ~wm.ok) => ids2 = ids \cup InsertableIds(rm)
              /\ (~rm.ok /\ ~wm.ok) => ids2 = ids]_vars

\* riven.market raised and a warframe.market listing of the same poll() is
\* a new row of the table
C18_Witness ==
    /\ pc = "gate" /\ LastPhase = "poll:ok"
    /\ ~lastFetch.rm.ok /\ lastFetch.wm.ok
    /\ \E r \in listings :
          /\ r.id \in InsertableIds(lastFetch.wm)
          /\ r.scraped_at = NextStamp(listings \ {r})

\* the phase a trace entry stands for
PhaseOf(entry) ==
    CASE entry \in {"poll:ok", "poll:raise"} -> "poll"
      [] entry \in {"aggregate:ok", "aggregate:raise"} -> "aggregate"
      [] entry \in {"monitor:ok", "monitor:raise"} -> "monitor"

\* the phases run so far in the current cycle
Phases == [i \in DOMAIN trace |-> PhaseOf(trace[i])]

\* C19: the phases of a cycle are poll, then possibly aggregate, then
\* monitor, one after the other, and a cycle that has ended consists of
\* poll, the optional aggregate and monitor.
C19_RunIsPollAggregateMonitor ==
    /\ \E n \in 0..3 :
          \/ Phases = Prefix(<<"poll", "aggregate", "monitor">>, n)
          \/ Phases = Prefix(<<"poll", "monitor">>, n)
    /\ (pc = "poll" /\ trace # <<>>) =>
          Phases \in {<<"poll", "monitor">>, <<"poll", "aggregate", "monitor">>}

\* C20: aggregate() is called at most once on a date: after
\* should_aggregate returned True on the date today, it returns False at
\* every hour of that date.
C20_OncePerDay ==
    /\ aggregateRuns <= 1
    /\ aggregateRuns = 1 =>
          \A hour \in 0..23 : ~should_aggregate(marker, today, hour).ret

\* a later cycle of a date on which aggregate() has run passes the gate
\* without aggregating
C20_Witness ==
    /\ pc = "monitor" /\ trace = <<"poll:ok">>
    /\ aggregateRuns = 1
    /\ marker = today
    /\ godrolls.exists /\ godrolls.rows # <<>>

\* C21: a successful aggregate() leaves a godrolls table computed from the
\* listings alone: its rows are the godrolls of the present listings, each a
\* roll ranked by this call, with one row per key, whatever the table held
\* before; and when the table it replaces was built from the same listings,
\* the new table is identical to it.
C21_RebuiltFromListings ==
    [][(pc = "gate" /\ LastPhase' = "aggregate:ok") =>
          /\ godrolls'.exists
          /\ godrolls'.rows = aggregate(listings')
          /\ \A g \in DOMAIN godrolls'.rows :
                \E i \in DOMAIN rankedRolls' :
                    rankedRolls'[i] = godrolls'.rows[g]
          /\ \A g, h \in DOMAIN godrolls'.rows :
                g # h => Key(godrolls'.rows[g]) # Key(godrolls'.rows[h])
          /\ (godrolls.exists /\ lastBuild.rows = <<listings>>)
                => godrolls' = godrolls]_vars

\* aggregate() has run again on unchanged listings and has written the rows
\* it dropped
C21_Witness ==
    /\ AfterAggregation
    /\ lastBuild.again
    /\ godrolls.rows # <<>>
    /\ lastBuild.dropped = godrolls.rows
    /\ lastBuild.rows = <<listings>>

\* the sign the specification gives a stat in slot i
SlotSign(i, stat) ==
    IF i <= 3 THEN (IF stat \in {"reload_speed", "recoil"} THEN "-" ELSE "+")
    ELSE (IF stat \in {"reload_speed", "recoil"} THEN "+" ELSE "-")

\* C22: format_riven_stats writes one entry per non-empty slot, in the
\* order of the slots; a stat in slot 1-3 carries "+" and the stat in slot 4
\* carries "-", with the two signs exchanged for reload_speed and recoil; the
\* text returned is these entries, title-cased and separated by blanks.
C22_SignsAndOrder ==
    fmt.called =>
        LET filled == {i \in 1..4 : fmt.stats[i] # ""}
            \* the k-th non-empty slot
            Slot(k) == CHOOSE i \in filled :
                           Cardinality({j \in filled : j < i}) = k - 1
        IN  /\ Len(fmt.formatted) = Cardinality(filled)
            /\ \A k \in DOMAIN fmt.formatted :
                  fmt.formatted[k]
                      = <<SlotSign(Slot(k), fmt.stats[Slot(k)]),
                          fmt.stats[Slot(k)]>>
            /\ fmt.result =
                  JoinWords([k \in 1..Cardinality(filled) |->
                      SlotSign(Slot(k), fmt.stats[Slot(k)])
                          \o Titled[fmt.stats[Slot(k)]]])

\* an inverted stat behind an empty positive slot, and the other inverted
\* stat as the negative
C22_Witness ==
    /\ fmt.called
    /\ fmt.stats = <<"damage", "", "reload_speed", "recoil">>
    /\ fmt.formatted
          = <<<<"+", "damage">>, <<"-", "reload_speed">>, <<"+", "recoil">>>>
    /\ fmt.result = "+Damage -Reload Speed +Recoil"

\* the listings that satisfy the conditions of find_deals for a godroll
Qualifying(rows, roll) ==
    {r \in rows :
        /\ Key(r) = Key(roll)
        /\ 0 < r.price
        /\ r.price * roll.median_price.d * DEAL_THRESHOLD.d
              <= roll.median_price.n * DEAL_THRESHOLD.n}

\* the WINDOW_LIMIT most recently scraped of them
Window(rows, roll) ==
    {r \in Qualifying(rows, roll) :
        Cardinality({q \in Qualifying(rows, roll) :
                        q.scraped_at > r.scraped_at}) < WINDOW_LIMIT}

\* C23: for every godroll a find_deals call returns one Deal for each
\* listing among the 10 most recently scraped qualifying listings of the
\* godroll's key whose id is not in alerted_listings, and no other Deal:
\* at most 10 per godroll, each with the listing's price and the discount
\* (median_price - price) / median_price * 100.
C23_WindowOfTen ==
    [][(pc = "monitor" /\ LastPhase' = "monitor:ok") =>
          /\ \A i \in DOMAIN lastDeals' :
                \E g \in DOMAIN godrolls.rows :
                    Key(godrolls.rows[g])
                        = <<lastDeals'[i].weapon>> \o lastDeals'[i].stats
          /\ \A g \in DOMAIN godrolls.rows :
                LET roll == godrolls.rows[g]
                    returned == {i \in DOMAIN lastDeals' :
                        <<lastDeals'[i].weapon>> \o lastDeals'[i].stats
                            = Key(roll)}
                IN  /\ Cardinality(returned) <= WINDOW_LIMIT
                    /\ {lastDeals'[i].id : i \in returned}
                          = {r.id : r \in {q \in Window(listings, roll) :
                                              q.id \notin alerted}}
                    /\ \A i, j \in returned :
                          i # j => lastDeals'[i].id # lastDeals'[j].id
                    /\ \A i \in returned :
                          \E r \in Window(listings, roll) :
                              /\ r.id = lastDeals'[i].id
                              /\ r.price = lastDeals'[i].price
                              /\ FracEq(lastDeals'[i].discount_percentage,
                                    [n |-> 100 * (roll.median_price.n
                                              - r.price * roll.median_price.d),
                                     d |-> roll.median_price.n])]_vars

\* the window holds the new listing and nine listings alerted before: the
\* call returns the new listing alone, and older qualifying listings stay
\* unalerted
C23_Witness ==
    /\ pc = "poll" /\ LastPhase = "monitor:ok"
    /\ Len(lastDeals) = 1 /\ lastDeals[1].id = "rm_new"
    /\ Cardinality(alerted) = WINDOW_LIMIT + 1
    /\ \E g \in DOMAIN godrolls.rows :
          /\ Cardinality(Window(listings, godrolls.rows[g])) = WINDOW_LIMIT
          /\ \E r \in Qualifying(listings, godrolls.rows[g]) :
                r.id \notin alerted

\* C24: a find_deals call that fails or is interrupted before its commit
\* leaves alerted_listings as it was and hands no Deal to the notifier; at
\* every moment the table holds exactly the ids of the Deals that calls
\* returned, never a part of a batch.
C24_NoPartialCommit ==
    [][/\ alerted' = {id \in DOMAIN returnCount' : returnCount'[id] >= 1}
       /\ (pc = "monitor" /\ LastPhase' = "monitor:raise") =>
             /\ alerted' = alerted
             /\ lastDeals' = <<>>
             /\ notified' = {}]_vars

\* a call failed with two or more inserts to make, and none of them is in
\* the table
C24_Witness ==
    /\ pc = "poll" /\ LastPhase = "monitor:raise"
    /\ godrolls.exists
    /\ LET pending == find_deals(listings, godrolls.rows, alerted,
                                 DEAL_THRESHOLD)
       IN  /\ Len(pending) >= 2
           /\ \A i \in DOMAIN pending : pending[i].id \notin alerted

\* C25: the only roll of a weapon has sample_percentile 0, whatever its
\* sample_count; it is a godroll when SAMPLE_THRESHOLD is 0 and not under a
\* positive threshold, the default 80 included.
C25_SingleProfileWeapon ==
    AfterAggregation =>
        \A i \in DOMAIN rankedRolls :
            LET roll == rankedRolls[i]
                family == {j \in DOMAIN rankedRolls :
                              rankedRolls[j].weapon = roll.weapon}
            IN  Cardinality(family) = 1 =>
                   /\ roll.sample_percentile.n = 0
                   /\ IsGodroll(roll) <=> (sampleThreshold <= 0)
                   /\ sampleThreshold = SAMPLE_THRESHOLD =>
                         \A g \in DOMAIN godrolls.rows :
                             godrolls.rows[g].weapon # roll.weapon

\* with the threshold at 0 the only roll of a weapon, sampled from three
\* sellers, is its godroll
C25_Witness ==
    /\ AfterAggregation
    /\ sampleThreshold = 0
    /\ \E i \in DOMAIN rankedRolls :
          /\ \A j \in DOMAIN rankedRolls :
                j # i => rankedRolls[j].weapon # rankedRolls[i].weapon
          /\ rankedRolls[i].sample_count = 3
          /\ FracEq(rankedRolls[i].sample_percentile, IntFrac(0))
          /\ IsGodroll(rankedRolls[i])

\* C26: poll() changes neither godrolls nor alerted_listings; monitor()
\* changes neither godrolls nor listings; the gate, with or without
\* aggregate(), changes neither listings nor alerted_listings, and godrolls
\* only when aggregate() is called; so the godroll set stays the one the
\* last rebuild computed from the listings it read (stated for every step
\* that changes godrolls or the record of the rebuild; the steps between
\* change neither).
C26_ReadOnlyBetweenRebuilds ==
    [][/\ pc = "poll" => (godrolls' = godrolls /\ alerted' = alerted)
       /\ pc = "monitor" => (godrolls' = godrolls /\ listings' = listings)
       /\ pc = "gate" =>
             /\ listings' = listings /\ alerted' = alerted
             /\ trace' = trace => godrolls' = godrolls
       /\ (lastBuild'.rows # None
              /\ (godrolls' # godrolls \/ lastBuild'.rows # lastBuild.rows)) =>
             godrolls' = [exists |-> TRUE,
                          rows |-> aggregate(lastBuild'.rows[1])]]_vars

\* a cycle without aggregation polled a listing and returned it as a Deal,
\* and the godroll set is still the one built before the listing arrived
C26_Witness ==
    /\ pc = "poll" /\ trace = <<"poll:ok", "monitor:ok">>
    /\ lastDeals # <<>>
    /\ lastBuild.rows # None
    /\ lastBuild.rows # <<listings>>
    /\ godrolls.rows = aggregate(lastBuild.rows[1])
    /\ godrolls.rows # aggregate(listings)
    /\ \E r \in listings :
          r.id = lastDeals[1].id /\ r \notin lastBuild.rows[1]

\* C27: a find_deals call that finds listings and godrolls as the returning
\* call before it left them returns no Deal and marks nothing, also when
\* qualifying listings outside the window of 10 have never been alerted.
C27_RepeatReturnsNothing ==
    [][(/\ pc = "monitor" /\ LastPhase' = "monitor:ok"
        /\ sinceMatch \in {"same", "repeat"})
          => (lastDeals' = <<>> /\ alerted' = alerted)]_vars

\* a repeated call has returned nothing while an unalerted qualifying
\* listing lies outside the window of a godroll
C27_Witness ==
    /\ pc = "poll" /\ LastPhase = "monitor:ok"
    /\ sinceMatch = "repeat"
    /\ lastDeals = <<>>
    /\ \E g \in DOMAIN godrolls.rows :
          LET roll == godrolls.rows[g]
          IN  /\ Cardinality(Qualifying(listings, roll)) > WINDOW_LIMIT
              /\ \A r \in Window(listings, roll) : r.id \in alerted
              /\ \E r \in Qualifying(listings, roll) \ Window(listings, roll) :
                    r.id \notin alerted

\* C28: aggregate() is called only when the hour is 4 and the marker does
\* not hold the date, and the marker holds the date whether the call
\* returns or raises; after a call that raised, no cycle of the same date
\* calls aggregate() at any hour, and the next call is at hour 4 of a later
\* date.
C28_FailedAggregationNotRetried ==
    [][/\ (pc = "gate" /\ trace' # trace) =>
             /\ attempt'.hour = AGGREGATE_HOUR
             /\ marker # today'
             /\ marker' = today'
       /\ attempt'.failed =>
             /\ marker' = today'
             /\ \A hour \in 0..23 :
                   ~should_aggregate(marker', today', hour).ret
       /\ (pc = "gate" /\ attempt.failed /\ today' = today) =>
             (trace' = trace /\ godrolls' = godrolls)
       /\ (pc = "gate" /\ attempt.failed /\ trace' # trace) =>
             (today' > today /\ attempt'.hour = AGGREGATE_HOUR)]_vars

\* a later cycle of the date on which aggregate() raised has passed the
\* gate without calling it; the table the failed call dropped is missing
C28_Witness ==
    /\ pc = "monitor" /\ trace = <<"poll:ok">>
    /\ attempt.failed /\ attempt.hour = AGGREGATE_HOUR
    /\ aggregateRuns = 1
    /\ marker = today
    /\ ~godrolls.exists

\* C29: no step changes or removes a row of listings, and no two rows share
\* an id; a row that a poll() adds carries the data of the first insertable
\* listing with its id in what the poll fetched, so a listing scraped again
\* under a stored id, in the same poll or a later one, is skipped.
C29_StoredListingsImmutable ==
    [][/\ listings \subseteq listings'
       /\ \A r1, r2 \in listings' : r1.id = r2.id => r1 = r2
       /\ (pc = "poll" /\ pc' = "gate") =>
             LET fetched == lastFetch'.rm.listings \o lastFetch'.wm.listings
                 insertable == {i \in DOMAIN fetched :
                                   ScrapedKey(fetched[i]) # None}
             IN  \A r \in listings' \ listings :
                     \E i \in insertable :
                         /\ fetched[i].id = r.id
                         /\ \A j \in insertable :
                               fetched[j].id = r.id => i <= j
                         /\ r.price = fetched[i].price
                         /\ r.seller = fetched[i].seller
                         /\ r.source = fetched[i].source
                         /\ Key(r) = ScrapedKey(fetched[i])]_vars

\* a poll() fetched nothing but a listing whose id is stored with another
\* price, and the row has kept its price
C29_Witness ==
    /\ pc = "gate" /\ LastPhase = "poll:ok"
    /\ lastFetch.rm.ok /\ Len(lastFetch.rm.listings) = 1
    /\ \E r \in listings :
          /\ r.id = lastFetch.rm.listings[1].id
          /\ r.price # lastFetch.rm.listings[1].price
          /\ r.scraped_at = NextStamp(listings \ {r})

\* C30: every stat of a key that normalize returns, for either source, is
\* empty or a member of CANONICAL_STATS.
C30_KeysUseCanonicalStats ==
    (norm.called /\ norm.result # None) =>
        \A i \in 2..5 :
            norm.result[i] = "" \/ norm.result[i] \in CANONICAL_STATS

=============================================================================
